---- MODULE Spec2Model ----
(***************************************************************************)
(* Model of lambda/lambda_function.py: the JSON object extractor, the      *)
(* retry/backoff controller call_hf_extract and the pipeline driver        *)
(* lambda_handler.                                                         *)
(*                                                                         *)
(* A text (a Python str) is a sequence of one-character strings.  Indices  *)
(* are 1-based here: position p of Python is position p + 1 of the model,  *)
(* and Python's "not found" result -1 is 0.                                *)
(***************************************************************************)
EXTENDS Integers, Sequences, FiniteSets, TLC

\* ------------------------------------------------------------------ texts

\* The characters str.strip() and the regex class \s treat as white space.
WS == {" ", "\n"}

Min(S) == CHOOSE x \in S : \A y \in S : x <= y
Max(S) == CHOOSE x \in S : \A y \in S : x >= y

\* text.find(c): the first position of c, 0 when c does not occur.
Find(text, c) ==
    LET hits == {i \in 1..Len(text) : text[i] = c}
    IN  IF hits = {} THEN 0 ELSE Min(hits)

\* text.find(c) where text.rfind(c) is meant: the first position of c.
RFindFirst(text, c) == Find(text, c)

\* text.rfind(c): the last position of c, 0 when c does not occur.
RFind(text, c) ==
    LET hits == {i \in 1..Len(text) : text[i] = c}
    IN  IF hits = {} THEN 0 ELSE Max(hits)

\* text.strip()
Strip(text) ==
    LET keep == {i \in 1..Len(text) : text[i] \notin WS}
    IN  IF keep = {} THEN <<>> ELSE SubSeq(text, Min(keep), Max(keep))

\* text[:n]
Truncate(text, n) == SubSeq(text, 1, IF Len(text) < n THEN Len(text) ELSE n)

\* The first position >= i of text that is past its end or holds no white space.
SkipWs(text, i) ==
    Min({j \in i..(Len(text) + 1) :
            /\ j = Len(text) + 1 \/ text[j] \notin WS
            /\ \A k \in i..(j - 1) : text[k] \in WS})

\* re.sub(r",(\s*[}\]])", r"\1", candidate): a comma is removed when white
\* space and then a closing brace or bracket follow it, wherever it stands.
TrailingComma(text, i) ==
    /\ text[i] = ","
    /\ LET j == SkipWs(text, i + 1)
       IN  j <= Len(text) /\ text[j] \in {"}", "]"}

RECURSIVE DropCommasFrom(_, _)
DropCommasFrom(text, i) ==
    IF i > Len(text) THEN <<>>
    ELSE IF TrailingComma(text, i) THEN DropCommasFrom(text, i + 1)
    ELSE <<text[i]>> \o DropCommasFrom(text, i + 1)

RemoveTrailingCommas(text) == DropCommasFrom(text, 1)

\* candidate.replace(left double quote, '"').replace(right double quote, '"')
\*          .replace(right single quote, "'")
\* The typographic marks are written LDQ, RDQ and RSQ.
StraightQuote(c) ==
    IF c \in {"LDQ", "RDQ"} THEN "\""
    ELSE IF c = "RSQ" THEN "'"
    ELSE c

ReplaceSmartQuotes(text) == [i \in 1..Len(text) |-> StraightQuote(text[i])]

\* ------------------------------------------------------------- json.loads

Digits == {"0", "1"}

ParseFail == [ok |-> FALSE, next |-> 0, val |-> <<>>]

\* A string starting at the quote at position i: it ends at the next quote
\* (the texts hold no backslash); a raw control character inside is refused.
ParseString(text, i) ==
    LET closes == {j \in (i + 1)..Len(text) : text[j] = "\""}
    IN  IF closes = {} THEN ParseFail
        ELSE LET j == Min(closes)
             IN  IF \E k \in (i + 1)..(j - 1) : text[k] = "\n" THEN ParseFail
                 ELSE [ok |-> TRUE, next |-> j + 1, val |-> SubSeq(text, i, j)]

\* A number starting at the digit at position i: the run of digits from i,
\* refused when it has a leading zero.
ParseNumber(text, i) ==
    LET j == Min({k \in i..(Len(text) + 1) :
                    k = Len(text) + 1 \/ text[k] \notin Digits})
    IN  IF text[i] = "0" /\ j > i + 1
        THEN [ok |-> TRUE, next |-> i + 1, val |-> <<"0">>]
        ELSE [ok |-> TRUE, next |-> j, val |-> SubSeq(text, i, j - 1)]

RECURSIVE ParseValue(_, _)
RECURSIVE ParseMembers(_, _, _)
RECURSIVE ParseElements(_, _, _)

\* The value starting at position i (white space already skipped).  val is
\* the value in canonical form: its text with the white space between
\* tokens removed.
ParseValue(text, i) ==
    IF i > Len(text) THEN ParseFail
    ELSE IF text[i] = "\"" THEN ParseString(text, i)
    ELSE IF text[i] \in Digits THEN ParseNumber(text, i)
    ELSE IF text[i] = "{" THEN
        LET j == SkipWs(text, i + 1)
        IN  IF j <= Len(text) /\ text[j] = "}"
            THEN [ok |-> TRUE, next |-> j + 1, val |-> <<"{", "}">>]
            ELSE ParseMembers(text, j, <<"{">>)
    ELSE IF text[i] = "[" THEN
        LET j == SkipWs(text, i + 1)
        IN  IF j <= Len(text) /\ text[j] = "]"
            THEN [ok |-> TRUE, next |-> j + 1, val |-> <<"[", "]">>]
            ELSE ParseElements(text, j, <<"[">>)
    ELSE ParseFail

\* The members of an object from the key expected at position i on.
ParseMembers(text, i, acc) ==
    IF i > Len(text) \/ text[i] # "\"" THEN ParseFail
    ELSE
      LET k == ParseString(text, i)
      IN  IF ~k.ok THEN ParseFail
          ELSE
            LET c == SkipWs(text, k.next)
            IN  IF c > Len(text) \/ text[c] # ":" THEN ParseFail
                ELSE
                  LET v == ParseValue(text, SkipWs(text, c + 1))
                  IN  IF ~v.ok THEN ParseFail
                      ELSE
                        LET e   == SkipWs(text, v.next)
                            got == acc \o k.val \o <<":">> \o v.val
                        IN  IF e > Len(text) THEN ParseFail
                            ELSE IF text[e] = "}"
                            THEN [ok |-> TRUE, next |-> e + 1,
                                  val |-> got \o <<"}">>]
                            ELSE IF text[e] = ","
                            THEN ParseMembers(text, SkipWs(text, e + 1),
                                              got \o <<",">>)
                            ELSE ParseFail

\* The elements of an array from the value expected at position i on.
ParseElements(text, i, acc) ==
    LET v == ParseValue(text, i)
    IN  IF ~v.ok THEN ParseFail
        ELSE
          LET e   == SkipWs(text, v.next)
              got == acc \o v.val
          IN  IF e > Len(text) THEN ParseFail
              ELSE IF text[e] = "]"
              THEN [ok |-> TRUE, next |-> e + 1, val |-> got \o <<"]">>]
              ELSE IF text[e] = ","
              THEN ParseElements(text, SkipWs(text, e + 1), got \o <<",">>)
              ELSE ParseFail

\* json.loads(text): one value, white space allowed around it, nothing else.
json_loads(text) ==
    LET v == ParseValue(text, SkipWs(text, 1))
    IN  IF ~v.ok THEN ParseFail
        ELSE IF SkipWs(text, v.next) <= Len(text) THEN ParseFail
        ELSE v

\* ---------------------------------------------------- extract_json_object

\* The result of extract_json_object(text): err is "" when an object is
\* returned, else the error raised: "Empty" (ValueError, empty output),
\* "NoJsonFound" (ValueError, no object found), "ParseError"
\* (json.JSONDecodeError).
extract_json_object(text) ==
    IF text = <<>> THEN [err |-> "Empty", val |-> <<>>]
    ELSE
      LET start == Find(text, "{")
          end   == RFind(text, "}")
      IN  IF start = 0 \/ end = 0 \/ end <= start
          THEN [err |-> "NoJsonFound", val |-> <<>>]
          ELSE
            LET candidate == ReplaceSmartQuotes(RemoveTrailingCommas(
                                 Strip(SubSeq(text, start, end))))
                parsed    == json_loads(candidate)
            IN  IF parsed.ok THEN [err |-> "", val |-> parsed.val]
                ELSE [err |-> "ParseError", val |-> <<>>]

\* ------------------------------------------------------------ object keys

Raw       == <<"r", "a", "w", "/">>
DotPdf    == <<".", "p", "d", "f">>
Processed == <<"p", "r", "o", "c", "e", "s", "s", "e", "d", "/">>

\* str.lower() on the letters the keys of the model are written with.
LowerChar(c) ==
    IF c = "P" THEN "p"
    ELSE IF c = "D" THEN "d"
    ELSE IF c = "F" THEN "f"
    ELSE IF c = "R" THEN "r"
    ELSE c

Lower(text) == [i \in 1..Len(text) |-> LowerChar(text[i])]

StartsWith(text, prefix) ==
    Len(text) >= Len(prefix) /\ SubSeq(text, 1, Len(prefix)) = prefix

EndsWith(text, suffix) ==
    /\ Len(text) >= Len(suffix)
    /\ SubSeq(text, Len(text) - Len(suffix) + 1, Len(text)) = suffix

\* The suffix compared as written, without lower().
NonTargetCaseSensitive(k) == ~StartsWith(k, Raw) \/ ~EndsWith(k, DotPdf)

\* not key.startswith("raw/") or not key.lower().endswith(".pdf")
NonTarget(k) == ~StartsWith(k, Raw) \/ ~EndsWith(Lower(k), DotPdf)

\* key.split("/")[-1].rsplit(".", 1)[0]
base_name_of(k) ==
    LET seg == SubSeq(k, RFind(k, "/") + 1, Len(k))
        dot == RFind(seg, ".")
    IN  IF dot = 0 THEN seg ELSE SubSeq(seg, 1, dot - 1)

meta_key_of(k) == Processed \o base_name_of(k) \o <<".", "j", "s", "o", "n">>

\* The text written under the key of the metadata.
text_key_as_meta_key(k) == meta_key_of(k)

text_key_of(k) == Processed \o base_name_of(k) \o <<".", "t", "x", "t">>
structured_key_of(k) ==
    Processed \o base_name_of(k)
        \o <<".", "s", "t", "r", "u", "c", "t", "u", "r", "e", "d">>
        \o <<".", "j", "s", "o", "n">>
err_key_of(k) ==
    Processed \o base_name_of(k)
        \o <<".", "s", "t", "r", "u", "c", "t", "u", "r", "e", "d">>
        \o <<".", "e", "r", "r", "o", "r">>
        \o <<".", "j", "s", "o", "n">>

\* "\n\n".join(pages_text) over the pages whose text is not blank.
RECURSIVE JoinPages(_)
JoinPages(ps) ==
    IF ps = <<>> THEN <<>>
    ELSE LET rest == JoinPages(Tail(ps))
         IN  IF Strip(Head(ps)) = <<>> THEN rest
             ELSE IF rest = <<>> THEN Head(ps)
             ELSE Head(ps) \o <<"\n", "\n">> \o rest

\* ---------------------------------------------------------------- inputs

\* The bits of a float's significand (53 in Python).  random.random() is
\* k / 2^SignificandBits for some k in 0 .. 2^SignificandBits - 1, and a
\* delay is counted in units of 1 / 2^SignificandBits seconds.
SignificandBits == 3

Unit == 2 ^ SignificandBits

\* The values of random.random(), in units.
Jitters == 0..(Unit - 1)

\* The most pages a document of the model has.
MaxPages == 2

\* The decoded object keys of the trigger events.
Keys ==
    { Raw \o <<"a">> \o DotPdf,
      Raw \o <<"d", "/", "a", ".", "P", "D", "F">>,
      Raw \o <<"a", ".", "t", "x", "t">>,
      <<"i", "n", "/", "a">> \o DotPdf,
      <<"R", "a", "w", "/", "a">> \o DotPdf }

\* What page.extract_text() or "" gives for one page.
PageTexts == { <<>>, <<" ">>, <<"a">> }

PageLists == UNION { [1..n -> PageTexts] : n \in 0..MaxPages }

\* The message contents the inference endpoint answers with.
ReplyTexts ==
    { <<"{", "}">>,
      <<" ", "{", "\"", "a", "\"", ":", "1", ",", "}">>,
      <<"x">>,
      <<"{", "a", "}">>,
      <<" ">> }

\* The statuses the inference endpoint refuses a request with.
StatusCodes == {400, 429, 503}

\* How one call of hf_chat ends: the endpoint's reply, an
\* urllib.error.HTTPError, or another exception raised inside hf_chat ("network":
\* urllib.error.URLError, a timeout, a response that is not the expected
\* envelope), all of which take the same path through call_hf_extract.
CallOutcomes ==
    [type : {"reply"}, code : {200}, text : ReplyTexts]
        \cup [type : {"http"}, code : StatusCodes, text : {<<>>}]
        \cup [type : {"network"}, code : {0}, text : {<<>>}]

\* os.environ.get("HF_API_TOKEN"): None (the empty text here) or a token.
Tokens == {"", "hf_token"}

\* ------------------------------------------------------ program constants

\* A loop that runs one attempt too many.
max_attempts_one_more == 3 + 1

\* "for attempt in range(1, max_attempts + 3)": two attempts more.
max_attempts_two_more == 3 + 2

max_attempts   == 3
base_delay     == 1
MaxPromptChars == 8000
SnippetChars   == 2000

\* Every refusal taken for a transient one.
RetryableAnyStatus(code) == code >= 400

\* e.code in (429, 500, 502, 503, 504)
Retryable(code) == code \in {429, 500, 502, 503, 504}

\* The float nearest to x units, x >= 1 second: a float in [2^e, 2^(e+1))
\* is a multiple of 2^(e+1) units, and a sum is rounded to the nearest
\* float, a tie going to the one whose significand is even.
RoundToFloat(x) ==
    LET e == Max({d \in 0..(max_attempts + 2) : Unit * 2 ^ d <= x})
        g == 2 ^ (e + 1)
        q == x \div g
        r == x % g
    IN  IF 2 * r < g \/ (2 * r = g /\ q % 2 = 0) THEN q * g ELSE (q + 1) * g

\* The exponent taken as attempt instead of attempt - 1.
sleep_s_doubled(n, jitter) == RoundToFloat(base_delay * Unit * 2 ^ n + jitter)

\* base_delay * (2 ** (attempt - 1)) + random.random(), in units, with
\* random.random() = jitter units.
sleep_s(n, jitter) == RoundToFloat(base_delay * Unit * 2 ^ (n - 1) + jitter)

\* ----------------------------------------------------------------- errors

NoErr == [kind |-> "none", code |-> 0, error |-> "", repair_error |-> "",
          repair_code |-> 0]

\* last_err = {"code": e.code, "reason": ..., "body": ...}
HttpErr(code) == [NoErr EXCEPT !.kind = "http", !.code = code]

\* last_err = {"error": str(e), "repair_error": str(e2)}
ParseErr(e, e2, code2) ==
    [NoErr EXCEPT !.kind = "parse", !.error = e, !.repair_error = e2,
                  !.repair_code = code2]

NoExc == [type |-> "none", code |-> 0, detail |-> NoErr]

\* raise RuntimeError("HF_API_TOKEN is missing in environment variables")
ConfigError == [NoExc EXCEPT !.type = "ConfigError"]

\* raise (the urllib.error.HTTPError of the primary call)
HTTPError(code) == [NoExc EXCEPT !.type = "HTTPError", !.code = code]

\* raise RuntimeError(f"HF call failed after retries: {last_err}")
ExtractionFailed(err) == [NoExc EXCEPT !.type = "ExtractionFailed", !.detail = err]

\* what s3.put_object raises when the write fails
StorageError == [NoExc EXCEPT !.type = "StorageError"]

\* How hf_chat(messages) followed by extract_json_object(reply) ends:
\* raw is what hf_chat returned (<<>> when it raised), err is "" when an
\* object was extracted and else names the exception.
ChatThenExtract(o) ==
    IF o.type = "reply"
    THEN LET reply == Strip(o.text)
             got   == extract_json_object(reply)
         IN  [replied |-> TRUE, raw |-> reply, err |-> got.err, val |-> got.val]
    ELSE [replied |-> FALSE, raw |-> <<>>, val |-> <<>>,
          err |-> IF o.type = "http" THEN "HTTPError" ELSE "NetworkError"]

\* return structured, raw_output
PrimaryResult(structured, raw) == [structured |-> structured, raw |-> raw]

\* The repaired object returned with the primary reply as its text.
RepairResultWithPrimaryText(structured, raw, repaired) ==
    [structured |-> structured, raw |-> raw]

\* return structured, repaired
RepairResult(structured, raw, repaired) ==
    [structured |-> structured, raw |-> repaired]

NoResult == [structured |-> <<>>, raw |-> <<>>]

\* (raw_llm_output or "")[:2000], raw_llm_output being <<>> for None and
\* <<text>> for a text.
Snippet(raw_llm) ==
    Truncate(IF raw_llm = <<>> THEN <<>> ELSE raw_llm[1], SnippetChars)

\* ------------------------------------------------------------------ state

VARIABLES
    key,              \* the decoded object key of the event
    token,            \* os.environ.get("HF_API_TOKEN")
    pc,               \* where the invocation stands
    extracted_text,   \* the joined text of the pages
    store,            \* the keys written to the bucket by s3.put_object
    structured_body,  \* <<>> or <<the body written at structured_key>>
    err_payload,      \* <<>> or <<the body written at err_key>>
    response,         \* what lambda_handler returned
    propagated,       \* the exception that left lambda_handler
    raw_llm_output,   \* lambda_handler's local: <<>> (None) or <<text>>
    exc,              \* the exception caught at "except Exception as e"
    text,             \* call_hf_extract's text, cut to 8000 characters
    attempt,          \* the loop variable of call_hf_extract
    raw_output,       \* the primary reply of the attempt ("" at its start)
    prim_err,         \* str(e) of "except Exception as e" in the loop
    last_err,         \* the error detail recorded last
    result,           \* the pair call_hf_extract returned
    ctl,              \* call_hf_extract: "idle", "running", "returned", "raised"
    \* observations of the run, read by no action
    nReads,           \* s3.get_object calls
    nPrimary,         \* hf_chat(base_messages) calls
    nRepair,          \* hf_chat(repair_messages) calls
    callsInAttempt,   \* hf_chat calls of the current attempt
    nSleeps,          \* time.sleep calls
    lastSleep,        \* the attempt the last sleep followed, and its delay
    lastCall,         \* the last hf_chat call and how it ended
    replies,          \* what hf_chat returned in the current attempt
    lastReply,        \* <<>> or <<the last text hf_chat returned>>
    attemptLog,       \* how each attempt so far ended
    observed,         \* the error detail of the last failed attempt
    storageFailed,    \* a call of s3.put_object has failed
    \* extract_json_object called on its own
    parts,            \* how the text was put together: prose, object, prose
    model_output,     \* the text handed to extract_json_object
    extracted,        \* the outcomes of its successive calls on that text
    \* two invocations of lambda_handler on one bucket
    runs,             \* per invocation: its key, its position, its locals
    bucket            \* the objects of the bucket, each with its last writer

driverVars == <<key, token, extracted_text, store, structured_body,
                err_payload, response, propagated, raw_llm_output, exc>>
ctlVars    == <<text, attempt, raw_output, prim_err, last_err, result, ctl>>
callObs    == <<nPrimary, nRepair, callsInAttempt, lastCall, replies,
                lastReply, attemptLog, observed>>
sleepObs   == <<nSleeps, lastSleep>>
handlerVars == <<pc, driverVars, ctlVars, nReads, callObs, sleepObs,
                 storageFailed>>
extractorVars == <<parts, model_output, extracted>>
invocationVars == <<runs, bucket>>
vars       == <<handlerVars, extractorVars, invocationVars>>

NoCall    == [kind |-> "none", attempt |-> 0, type |-> "none", code |-> 0]
NoReplies == [primary |-> <<>>, repair |-> <<>>]
NoResponse == [statusCode |-> 0, body |-> ""]
Returned(body) == [statusCode |-> 200, body |-> body]

\* How an attempt ended, read off the outcomes of its calls: the primary
\* call was refused with one of the statuses 429, 500, 502, 503, 504
\* ("http_retryable") or with another status ("http_other"), its reply
\* parsed ("parsed"), or the repair call was made and its reply parsed
\* ("repaired") or not ("unrepaired").
HttpFact(code) ==
    IF code \in {429, 500, 502, 503, 504} THEN "http_retryable" ELSE "http_other"

\* The error detail an attempt ends with, as the run shows it.
Seen(kind, code, e, e2, code2) ==
    [kind |-> kind, code |-> code, error |-> e, repair_error |-> e2,
     repair_code |-> code2]

HandlerInit ==
    /\ key \in Keys
    /\ token \in Tokens
    /\ pc = "start"
    /\ extracted_text = <<>>
    /\ store = {}
    /\ structured_body = <<>>
    /\ err_payload = <<>>
    /\ response = NoResponse
    /\ propagated = NoExc
    /\ raw_llm_output = <<>>
    /\ exc = NoExc
    /\ text = <<>>
    /\ attempt = 0
    /\ raw_output = <<>>
    /\ prim_err = ""
    /\ last_err = NoErr
    /\ result = NoResult
    /\ ctl = "idle"
    /\ nReads = 0
    /\ nPrimary = 0
    /\ nRepair = 0
    /\ callsInAttempt = 0
    /\ nSleeps = 0
    /\ lastSleep = [after |-> 0, delay |-> 0]
    /\ lastCall = NoCall
    /\ replies = NoReplies
    /\ lastReply = <<>>
    /\ attemptLog = <<>>
    /\ observed = NoErr
    /\ storageFailed = FALSE

NoParts == [before |-> <<>>, object |-> <<>>, after |-> <<>>]

\* extract_json_object not called on its own.
ExtractorIdle ==
    /\ parts = NoParts
    /\ model_output = <<>>
    /\ extracted = <<>>

\* No second invocation: the one invocation is that of HandlerInit.
InvocationsIdle ==
    /\ runs = <<>>
    /\ bucket = {}

\* One invocation of lambda_handler.
Init ==
    /\ HandlerInit
    /\ ExtractorIdle
    /\ InvocationsIdle

\* ------------------------------------------------------- lambda_handler

\* A test that no text passes ("extracted_text is None").
IsEmptyTextNever(t) == FALSE

\* len(extracted_text.strip()) == 0
IsEmptyText(t) == Len(Strip(t)) = 0

\* "except RuntimeError" in place of "except Exception".
CaughtRuntimeErrorOnly(e) == e.type \in {"ExtractionFailed", "ConfigError"}

\* "except urllib.error.HTTPError" in place of "except Exception".
CaughtHttpErrorOnly(e) == e.type = "HTTPError"

\* "except Exception as e" around the call of call_hf_extract and the write
\* of the structured record: every exception raised there is caught.
CaughtByDriver(e) == TRUE

\* An exception e leaves call_hf_extract: the handler of lambda_handler
\* takes it, or it leaves lambda_handler too.
RaiseToDriver(e) ==
    IF CaughtByDriver(e)
    THEN pc' = "put_error" /\ exc' = e /\ UNCHANGED propagated
    ELSE pc' = "aborted" /\ propagated' = e /\ UNCHANGED exc

\* lambda_handler, up to the test of the key.
Start ==
    /\ pc = "start"
    /\ IF NonTarget(key)
       THEN pc' = "done" /\ response' = Returned("skipped")
       ELSE pc' = "get_object" /\ UNCHANGED response
    /\ UNCHANGED <<key, token, extracted_text, store, structured_body,
                   err_payload, propagated, raw_llm_output, exc>>
    /\ UNCHANGED <<ctlVars, nReads, callObs, sleepObs, storageFailed>>
    /\ UNCHANGED <<extractorVars, invocationVars>>

\* s3.get_object, PdfReader and the loop over the pages.
GetObject ==
    /\ pc = "get_object"
    /\ nReads' = nReads + 1
    /\ \/ \E ps \in PageLists :
            /\ extracted_text' = JoinPages(ps)
            /\ pc' = "put_text"
            /\ UNCHANGED propagated
       \/ /\ pc' = "aborted"
          /\ propagated' = [NoExc EXCEPT !.type = "ReadError"]
          /\ UNCHANGED extracted_text
    /\ UNCHANGED <<key, token, store, structured_body, err_payload, response,
                   raw_llm_output, exc>>
    /\ UNCHANGED <<ctlVars, callObs, sleepObs, storageFailed>>
    /\ UNCHANGED <<extractorVars, invocationVars>>

\* s3.put_object(Key=text_key, ...)
PutText ==
    /\ pc = "put_text"
    /\ \/ /\ store' = store \cup {text_key_of(key)}
          /\ pc' = "put_meta"
          /\ UNCHANGED <<propagated, storageFailed>>
       \/ /\ pc' = "aborted"
          /\ propagated' = StorageError
          /\ storageFailed' = TRUE
          /\ UNCHANGED store
    /\ UNCHANGED <<key, token, extracted_text, structured_body,
                   err_payload, response, raw_llm_output, exc>>
    /\ UNCHANGED <<ctlVars, nReads, callObs, sleepObs>>
    /\ UNCHANGED <<extractorVars, invocationVars>>

\* s3.put_object(Key=meta_key, ...) and the test for an empty text.
PutMeta ==
    /\ pc = "put_meta"
    /\ \/ /\ store' = store \cup {meta_key_of(key)}
          /\ IF IsEmptyText(extracted_text)
             THEN pc' = "done" /\ response' = Returned("no_text")
             ELSE pc' = "call_hf_extract" /\ UNCHANGED response
          /\ UNCHANGED <<propagated, storageFailed>>
       \/ /\ pc' = "aborted"
          /\ propagated' = StorageError
          /\ storageFailed' = TRUE
          /\ UNCHANGED <<store, response>>
    /\ UNCHANGED <<key, token, extracted_text, structured_body,
                   err_payload, raw_llm_output, exc>>
    /\ UNCHANGED <<ctlVars, nReads, callObs, sleepObs>>
    /\ UNCHANGED <<extractorVars, invocationVars>>

\* s3.put_object(Key=structured_key, ...) and the return that follows; a
\* failure of the write is caught by "except Exception as e".
PutStructured ==
    /\ pc = "put_structured"
    /\ \/ /\ store' = store \cup {structured_key_of(key)}
          /\ structured_body' = <<result.structured>>
          /\ response' = Returned("processed_with_llm")
          /\ pc' = "done"
          /\ UNCHANGED <<exc, propagated, storageFailed>>
       \/ /\ RaiseToDriver(StorageError)
          /\ storageFailed' = TRUE
          /\ UNCHANGED <<store, structured_body, response>>
    /\ UNCHANGED <<key, token, extracted_text, err_payload, raw_llm_output>>
    /\ UNCHANGED <<ctlVars, nReads, callObs, sleepObs>>
    /\ UNCHANGED <<extractorVars, invocationVars>>

\* The handler of "except Exception as e": err_payload,
\* s3.put_object(Key=err_key, ...) and the return that follows.
PutError ==
    /\ pc = "put_error"
    /\ \/ /\ store' = store \cup {err_key_of(key)}
          /\ err_payload' = <<[error |-> exc,
                               raw_llm_output_snippet |-> Snippet(raw_llm_output)]>>
          /\ response' = Returned("processed_but_llm_failed")
          /\ pc' = "done"
          /\ UNCHANGED <<propagated, storageFailed>>
       \/ /\ pc' = "aborted"
          /\ propagated' = StorageError
          /\ storageFailed' = TRUE
          /\ UNCHANGED <<store, err_payload, response>>
    /\ UNCHANGED <<key, token, extracted_text, structured_body,
                   raw_llm_output, exc>>
    /\ UNCHANGED <<ctlVars, nReads, callObs, sleepObs>>
    /\ UNCHANGED <<extractorVars, invocationVars>>

\* ------------------------------------------------------ call_hf_extract

\* A test that no token fails.
TokenMissingNever(t) == FALSE

\* not token
TokenMissing(t) == t = ""

\* The call of call_hf_extract: the test of the token, the cut of the text
\* and the entry of the loop.
CallHfExtract ==
    /\ pc = "call_hf_extract"
    /\ IF TokenMissing(token)
       THEN /\ RaiseToDriver(ConfigError)
            /\ ctl' = "raised"
            /\ UNCHANGED <<text, attempt, raw_output, last_err>>
       ELSE /\ text' = Truncate(extracted_text, MaxPromptChars)
            /\ attempt' = 1
            /\ raw_output' = <<>>
            /\ last_err' = NoErr
            /\ ctl' = "running"
            /\ pc' = "primary"
            /\ UNCHANGED <<exc, propagated>>
    /\ UNCHANGED <<key, token, extracted_text, store, structured_body,
                   err_payload, response, raw_llm_output>>
    /\ UNCHANGED <<prim_err, result, nReads, callObs, sleepObs, storageFailed>>
    /\ UNCHANGED <<extractorVars, invocationVars>>

\* hf_chat(base_messages) and extract_json_object(raw_output), with the
\* handler of urllib.error.HTTPError and the entry of the other handler.
PrimaryCall ==
    /\ pc = "primary"
    /\ \E o \in CallOutcomes :
         LET r == ChatThenExtract(o)
         IN  /\ nPrimary' = nPrimary + 1
             /\ callsInAttempt' = callsInAttempt + 1
             /\ lastCall' = [kind |-> "primary", attempt |-> attempt,
                             type |-> o.type, code |-> o.code]
             /\ replies' = [primary |-> IF r.replied THEN <<r.raw>> ELSE <<>>,
                            repair |-> <<>>]
             /\ lastReply' = IF r.replied THEN <<r.raw>> ELSE lastReply
             /\ raw_output' = r.raw
             /\ IF r.err = ""
                THEN /\ result' = PrimaryResult(r.val, r.raw)
                     /\ raw_llm_output' = <<result'.raw>>
                     /\ ctl' = "returned"
                     /\ pc' = "put_structured"
                     /\ attemptLog' = Append(attemptLog, "parsed")
                     /\ UNCHANGED <<last_err, observed, exc, propagated,
                                    prim_err>>
                ELSE IF r.err = "HTTPError"
                THEN /\ last_err' = HttpErr(o.code)
                     /\ observed' = Seen("http", o.code, "", "", 0)
                     /\ attemptLog' = Append(attemptLog, HttpFact(o.code))
                     /\ IF Retryable(o.code)
                        THEN /\ pc' = "sleep"
                             /\ UNCHANGED <<exc, propagated, ctl>>
                        ELSE /\ RaiseToDriver(HTTPError(o.code))
                             /\ ctl' = "raised"
                     /\ UNCHANGED <<result, raw_llm_output, prim_err>>
                ELSE /\ prim_err' = r.err
                     /\ pc' = "repair"
                     /\ UNCHANGED <<last_err, observed, exc, propagated, ctl,
                                    result, raw_llm_output, attemptLog>>
    /\ UNCHANGED <<key, token, extracted_text, store, structured_body,
                   err_payload, response>>
    /\ UNCHANGED <<text, attempt, nReads, nRepair, sleepObs, storageFailed>>
    /\ UNCHANGED <<extractorVars, invocationVars>>

\* "except ValueError as e2" in place of "except Exception as e2": an
\* HTTPError of the repair call would leave call_hf_extract.
CaughtParseErrorsOnly(err) == err # "HTTPError"

\* "except Exception as e2" around the repair call and the extraction of its
\* reply: every failure of the repair pass is caught, an HTTPError of any
\* status included.
CaughtByRepairHandler(err) == TRUE

\* The repair pass: hf_chat(repair_messages) and
\* extract_json_object(repaired), with the handler "except Exception as e2".
RepairCall ==
    /\ pc = "repair"
    /\ \E o \in CallOutcomes :
         LET r == ChatThenExtract(o)
         IN  /\ nRepair' = nRepair + 1
             /\ callsInAttempt' = callsInAttempt + 1
             /\ lastCall' = [kind |-> "repair", attempt |-> attempt,
                             type |-> o.type, code |-> o.code]
             /\ replies' = [replies EXCEPT
                              !.repair = IF r.replied THEN <<r.raw>> ELSE <<>>]
             /\ lastReply' = IF r.replied THEN <<r.raw>> ELSE lastReply
             /\ IF r.err = ""
                THEN /\ result' = RepairResult(r.val, raw_output, r.raw)
                     /\ raw_llm_output' = <<result'.raw>>
                     /\ ctl' = "returned"
                     /\ pc' = "put_structured"
                     /\ attemptLog' = Append(attemptLog, "repaired")
                     /\ UNCHANGED <<last_err, observed, exc, propagated>>
                ELSE IF CaughtByRepairHandler(r.err)
                THEN /\ last_err' = ParseErr(prim_err, r.err, o.code)
                     /\ observed' = Seen("parse", 0, prim_err, r.err, o.code)
                     /\ pc' = "sleep"
                     /\ attemptLog' = Append(attemptLog, "unrepaired")
                     /\ UNCHANGED <<result, raw_llm_output, ctl, exc,
                                    propagated>>
                ELSE /\ RaiseToDriver(HTTPError(o.code))
                     /\ ctl' = "raised"
                     /\ attemptLog' = Append(attemptLog, "unrepaired")
                     /\ UNCHANGED <<result, raw_llm_output, last_err,
                                    observed>>
    /\ UNCHANGED <<key, token, extracted_text, store, structured_body,
                   err_payload, response>>
    /\ UNCHANGED <<text, attempt, raw_output, prim_err, nReads, nPrimary,
                   sleepObs, storageFailed>>
    /\ UNCHANGED <<extractorVars, invocationVars>>

\* time.sleep(sleep_s) of either handler, then the next iteration of the
\* loop or, the loop being over, the raise that follows it.
BackoffSleep ==
    /\ pc = "sleep"
    /\ \E jitter \in Jitters :
         lastSleep' = [after |-> attempt, delay |-> sleep_s(attempt, jitter)]
    /\ nSleeps' = nSleeps + 1
    /\ IF attempt < max_attempts
       THEN /\ attempt' = attempt + 1
            /\ raw_output' = <<>>
            /\ callsInAttempt' = 0
            /\ replies' = NoReplies
            /\ pc' = "primary"
            /\ UNCHANGED <<exc, propagated, ctl>>
       ELSE /\ RaiseToDriver(ExtractionFailed(last_err))
            /\ ctl' = "raised"
            /\ UNCHANGED <<attempt, raw_output, callsInAttempt, replies>>
    /\ UNCHANGED <<key, token, extracted_text, store, structured_body,
                   err_payload, response, raw_llm_output>>
    /\ UNCHANGED <<text, prim_err, last_err, result, nReads, nPrimary, nRepair,
                   lastCall, lastReply, attemptLog, observed, storageFailed>>
    /\ UNCHANGED <<extractorVars, invocationVars>>

\* ---------------------------------------------------------- specification

Next ==
    \/ Start
    \/ GetObject
    \/ PutText
    \/ PutMeta
    \/ CallHfExtract
    \/ PrimaryCall
    \/ RepairCall
    \/ BackoffSleep
    \/ PutStructured
    \/ PutError

Spec == Init /\ [][Next]_vars

\* ----------------------------------------------------------------- claims

nCalls == nPrimary + nRepair

Ended(i, how) == i \in 1..Len(attemptLog) /\ attemptLog[i] = how

RetryableFailure == {"http_retryable", "unrepaired"}

\* C1: one invocation of call_hf_extract makes at most 3 primary calls; when
\* all three attempts failed with retryable failures (a retryable status or
\* a parse failure followed by a failed repair, in any mix), the invocation,
\* once its last backoff is over, has raised ExtractionFailed and has not
\* returned, and the detail the exception carries is the error of the third
\* attempt.
C1_ExhaustedRaisesLastError ==
    /\ nPrimary <= 3
    /\ Len(attemptLog) <= 3
    /\ ( /\ Len(attemptLog) = 3
         /\ \A i \in 1..3 : attemptLog[i] \in RetryableFailure
         /\ pc # "sleep" )
       => /\ ctl = "raised"
          /\ result = NoResult
          /\ exc.type = "ExtractionFailed"
          /\ exc.detail = observed
          /\ lastCall.attempt = 3

\* Three failed attempts of different kinds, the last one a refused primary
\* call after a failed repair in the first, and ExtractionFailed raised.
C1_Witness ==
    /\ attemptLog = <<"unrepaired", "http_retryable", "http_retryable">>
    /\ exc.type = "ExtractionFailed"
    /\ exc.detail.kind = "http"
    /\ pc = "done"

\* C2: when the primary call of attempt n is refused with a status outside
\* {429, 500, 502, 503, 504}, that attempt is the last one and that call the
\* last call of the invocation: the error is raised as it is, no repair call
\* and no sleep follow it (n - 1 sleeps and n primary calls in all; for
\* n = 1, no sleep and one call).
C2_FatalStatusAborts ==
    \A n \in 1..Len(attemptLog) :
        attemptLog[n] = "http_other"
        => /\ n = Len(attemptLog)
           /\ lastCall.kind = "primary"
           /\ lastCall.attempt = n
           /\ lastCall.type = "http"
           /\ lastCall.code \notin {429, 500, 502, 503, 504}
           /\ ctl = "raised"
           /\ exc.type = "HTTPError"
           /\ exc.code = lastCall.code
           /\ pc \in {"put_error", "done", "aborted"}
           /\ nPrimary = n
           /\ callsInAttempt = 1
           /\ nSleeps = n - 1
           /\ (n = 1 => nSleeps = 0 /\ nCalls = 1)

\* The second attempt's primary call refused with status 400, after one
\* backoff, and the run over.
C2_Witness ==
    /\ Ended(2, "http_other")
    /\ lastCall.code = 400
    /\ nSleeps = 1
    /\ pc = "done"

\* After k refused primary calls (k in 0..2), each with a retryable status,
\* and a primary reply that parses, the invocation has returned in attempt
\* k + 1 after exactly k sleeps and k + 1 calls.
SucceedsAfterRefusals ==
    \A k \in 0..2 :
        ( /\ Len(attemptLog) = k + 1
          /\ \A i \in 1..k : attemptLog[i] = "http_retryable"
          /\ attemptLog[k + 1] = "parsed" )
        => /\ ctl = "returned"
           /\ attempt = k + 1
           /\ nSleeps = k
           /\ nCalls = k + 1

\* C3 as stated: SucceedsAfterRefusals, and every sleep, after a refused
\* call or after a failed repair, following attempt n lasts d with
\* 2^(n-1) <= d < 2^(n-1) + 1 seconds.
C3_DelayBelowNextSecond ==
    /\ SucceedsAfterRefusals
    /\ nSleeps > 0
       => /\ lastSleep.after \in 1..3
          /\ lastSleep.delay >= Unit * 2 ^ (lastSleep.after - 1)
          /\ lastSleep.delay < Unit * (2 ^ (lastSleep.after - 1) + 1)

\* C3, amended: SucceedsAfterRefusals, and every sleep, after a refused call
\* or after a failed repair, following attempt n lasts d with
\* 2^(n-1) <= d <= 2^(n-1) + 1 seconds: the float sum of 2^(n-1) and a
\* jitter just below 1 is rounded up to 2^(n-1) + 1.
C3_RetryThenSuccess ==
    /\ SucceedsAfterRefusals
    /\ nSleeps > 0
       => /\ lastSleep.after \in 1..3
          /\ lastSleep.delay >= Unit * 2 ^ (lastSleep.after - 1)
          /\ lastSleep.delay <= Unit * (2 ^ (lastSleep.after - 1) + 1)

\* Two refused calls, two sleeps, the second of them strictly between 2 and
\* 3 seconds, and the third primary reply parsed.
C3_Witness ==
    /\ attemptLog = <<"http_retryable", "http_retryable", "parsed">>
    /\ ctl = "returned"
    /\ nSleeps = 2
    /\ lastSleep.after = 2
    /\ lastSleep.delay > Unit * 2
    /\ lastSleep.delay < Unit * 3

\* C4: an attempt makes at most two calls of hf_chat.  When the repair reply
\* parsed, the invocation has returned in that attempt, with two calls and
\* no sleep in it, the object parsed from the repair reply and the repair
\* reply; when the primary reply parsed, it has returned the object parsed
\* from the primary reply and the primary reply, and made no repair call in
\* that attempt.
C4_RepairInSameAttempt ==
    /\ callsInAttempt <= 2
    /\ \A n \in 1..Len(attemptLog) :
          /\ attemptLog[n] = "repaired"
             => /\ n = Len(attemptLog)
                /\ ctl = "returned"
                /\ attempt = n
                /\ callsInAttempt = 2
                /\ nSleeps = n - 1
                /\ lastCall.kind = "repair"
                /\ replies.repair # <<>>
                /\ result.raw = replies.repair[1]
                /\ result.structured = extract_json_object(replies.repair[1]).val
                /\ extract_json_object(replies.repair[1]).err = ""
          /\ attemptLog[n] = "parsed"
             => /\ n = Len(attemptLog)
                /\ ctl = "returned"
                /\ attempt = n
                /\ callsInAttempt = 1
                /\ lastCall.kind = "primary"
                /\ replies.primary # <<>>
                /\ replies.repair = <<>>
                /\ result.raw = replies.primary[1]
                /\ result.structured = extract_json_object(replies.primary[1]).val
                /\ extract_json_object(replies.primary[1]).err = ""

\* In the first attempt, a primary reply that does not parse and a repair
\* reply, another text, that does.
C4_Witness ==
    /\ attemptLog = <<"repaired">>
    /\ replies.primary = << <<"x">> >>
    /\ replies.repair = << <<"{", "}">> >>
    /\ result.raw = <<"{", "}">>
    /\ nSleeps = 0

\* The artifacts of the document, named as the interface names them.
TxtArtifact        == Processed \o base_name_of(key) \o <<".", "t", "x", "t">>
MetaArtifact       == Processed \o base_name_of(key) \o <<".", "j", "s", "o", "n">>
StructuredArtifact ==
    Processed \o base_name_of(key)
        \o <<".", "s", "t", "r", "u", "c", "t", "u", "r", "e", "d", ".", "j", "s", "o", "n">>
ErrorArtifact ==
    Processed \o base_name_of(key)
        \o <<".", "s", "t", "r", "u", "c", "t", "u", "r", "e", "d", ".", "e", "r", "r", "o", "r",
             ".", "j", "s", "o", "n">>

\* The run is over: lambda_handler returned or an exception left it.
Finished == pc \in {"done", "aborted"}

\* The text of the document has been extracted.
Extracted == nReads > 0 /\ propagated.type # "ReadError"

\* C5: a finished run on a document whose extracted text is not empty after
\* trimming, in which no storage write failed, has written exactly one of
\* the structured artifact and the error artifact (and no run ever holds
\* both); a run on a document whose extracted text is empty writes neither.
C5_ExactlyOneArtifact ==
    /\ ( /\ Finished
         /\ Extracted
         /\ Strip(extracted_text) # <<>>
         /\ ~storageFailed )
       => (StructuredArtifact \in store) # (ErrorArtifact \in store)
    /\ ~(StructuredArtifact \in store /\ ErrorArtifact \in store)
    /\ Strip(extracted_text) = <<>>
       => StructuredArtifact \notin store /\ ErrorArtifact \notin store

\* A finished run with text whose controller raised and that wrote the error
\* artifact alone.
C5_Witness ==
    /\ pc = "done"
    /\ Strip(extracted_text) # <<>>
    /\ ~storageFailed
    /\ ctl = "raised"
    /\ ErrorArtifact \in store
    /\ StructuredArtifact \notin store

\* C6: whenever call_hf_extract has raised (attempts exhausted, a fatal
\* status, a missing token), the text and metadata artifacts are written and
\* stay so, the failure never leaves lambda_handler, and the finished run,
\* unless the write of the report itself failed, has written the error
\* report, which carries that failure, and returned status 200 with the
\* outcome processed_but_llm_failed.
C6_FailureHandledAtDriver ==
    ctl = "raised"
    => /\ exc.type \in {"ExtractionFailed", "HTTPError", "ConfigError"}
       /\ propagated.type \in {"none", "StorageError"}
       /\ TxtArtifact \in store
       /\ MetaArtifact \in store
       /\ (Finished /\ ~storageFailed)
          => /\ pc = "done"
             /\ propagated = NoExc
             /\ ErrorArtifact \in store
             /\ err_payload # <<>>
             /\ err_payload[1].error = exc
             /\ response = [statusCode |-> 200, body |-> "processed_but_llm_failed"]

\* A fatal status raised by the controller, reported and answered with 200.
C6_Witness ==
    /\ ctl = "raised"
    /\ exc.type = "HTTPError"
    /\ pc = "done"
    /\ response.statusCode = 200
    /\ ErrorArtifact \in store

\* C7: when the extracted text is empty after trimming, no call of hf_chat
\* and no sleep is made, nothing but the text and metadata artifacts is
\* written, and the finished run, unless a storage write failed, has written
\* exactly these two and returned no_text with status 200.
C7_EmptyTextSkipsLlm ==
    (Extracted /\ Strip(extracted_text) = <<>>)
    => /\ nCalls = 0
       /\ nSleeps = 0
       /\ ctl = "idle"
       /\ store \subseteq {TxtArtifact, MetaArtifact}
       /\ (Finished /\ ~storageFailed)
          => /\ pc = "done"
             /\ store = {TxtArtifact, MetaArtifact}
             /\ response = [statusCode |-> 200, body |-> "no_text"]
             /\ propagated = NoExc

\* A run on a document with no text, finished with both artifacts written.
C7_Witness ==
    /\ Extracted
    /\ Strip(extracted_text) = <<>>
    /\ pc = "done"
    /\ Cardinality(store) = 2
    /\ response.body = "no_text"

\* The key is outside raw/ or does not end in .pdf in any letter case.
OffTarget ==
    \/ ~StartsWith(key, <<"r", "a", "w", "/">>)
    \/ ~EndsWith(Lower(key), <<".", "p", "d", "f">>)

\* C8: for a key outside raw/ or not ending in .pdf, compared without regard
\* to case, nothing is read, written, called or slept, and the handler, once
\* past its test, has returned skipped; a key under raw/ ending in .pdf in
\* any letter case is not skipped: the handler goes on to read the object.
C8_SkipLeavesNothing ==
    /\ OffTarget
       => /\ store = {}
          /\ nReads = 0
          /\ nCalls = 0
          /\ nSleeps = 0
          /\ ctl = "idle"
          /\ pc \in {"start", "done"}
          /\ pc = "done" => response = [statusCode |-> 200, body |-> "skipped"]
    /\ ~OffTarget
       => /\ response.body # "skipped"
          /\ pc # "start" => (pc = "get_object" \/ nReads = 1)

\* A key under raw/ that is no PDF, skipped.
C8_Witness ==
    /\ StartsWith(key, Raw)
    /\ OffTarget
    /\ pc = "done"
    /\ response.body = "skipped"

\* C9: the text artifact and the metadata artifact are written before the
\* first call of hf_chat (before call_hf_extract is even entered), and every
\* run that returned no_text, processed_with_llm or processed_but_llm_failed
\* has written both.
C9_TextAndMetaFirst ==
    /\ (nCalls > 0 \/ ctl # "idle" \/ pc = "call_hf_extract")
       => TxtArtifact \in store /\ MetaArtifact \in store
    /\ response.body \in {"no_text", "processed_with_llm", "processed_but_llm_failed"}
       => TxtArtifact \in store /\ MetaArtifact \in store

\* The first call of hf_chat is about to be made, both artifacts written.
C9_Witness ==
    /\ pc = "primary"
    /\ nCalls = 0
    /\ store = {TxtArtifact, MetaArtifact}

\* C10: an error report written after hf_chat returned at least one reply in
\* the run holds, as its snippet, the first 2000 characters at most of the
\* last reply returned; the snippet is empty only when no reply was returned
\* (or the last one was empty).
C10_SnippetIsLastReply ==
    (err_payload # <<>> /\ lastReply # <<>>)
    => err_payload[1].raw_llm_output_snippet
         = SubSeq(lastReply[1], 1,
                  IF Len(lastReply[1]) < 2000 THEN Len(lastReply[1]) ELSE 2000)


\* C11: with no bearer token, call_hf_extract raises the configuration error
\* before any call of hf_chat: in a run without token no call and no sleep
\* is ever made, whatever the text, and the controller, once called, has
\* raised the configuration error.
C11_NoTokenNoCall ==
    token = ""
    => /\ nCalls = 0
       /\ nSleeps = 0
       /\ lastCall = NoCall
       /\ ctl \in {"idle", "raised"}
       /\ ctl = "raised" => exc.type = "ConfigError"
       /\ pc \notin {"primary", "repair", "sleep", "put_structured"}
       /\ (Extracted /\ Strip(extracted_text) # <<>> /\ pc = "done") => ctl = "raised"

\* A run without token on a document with text, over, the configuration
\* error reported.
C11_Witness ==
    /\ token = ""
    /\ Strip(extracted_text) # <<>>
    /\ ctl = "raised"
    /\ exc.type = "ConfigError"
    /\ pc = "done"


\* C14. The repair call is made only after a primary call whose reply was
\* received and failed to parse: an attempt whose primary call got no reply
\* makes no repair call.
C14_RepairOnlyAfterUnparsedReply ==
    lastCall.kind = "repair"
    => /\ replies.primary # <<>>
       /\ extract_json_object(replies.primary[1]).err # ""

\* C15 as stated. An HTTP error of a status outside 429, 500, 502, 503, 504
\* ends the controller with that error at once, in whichever call of the
\* attempt it occurs: no backoff sleep and no further attempt follow it.
C15_FatalStatusInAnyCall ==
    (lastCall.type = "http" /\ lastCall.code \notin {429, 500, 502, 503, 504})
    => /\ ctl = "raised"
       /\ exc.type = "HTTPError"
       /\ exc.code = lastCall.code
       /\ pc \notin {"sleep", "primary", "repair"}

\* C15, amended. An HTTP error of a status outside the retryable set ends
\* the controller at once when the primary call raises it.  Raised by the
\* repair call, an HTTP error of any status is one more failed repair: it is
\* recorded in last_err, the backoff sleep follows, and the controller raises
\* only when that was the last attempt, with ExtractionFailed.
C15_FatalStatusOfPrimaryCallOnly ==
    /\ (/\ lastCall.kind = "primary" /\ lastCall.type = "http"
        /\ lastCall.code \notin {429, 500, 502, 503, 504})
       => /\ ctl = "raised"
          /\ exc = HTTPError(lastCall.code)
          /\ pc \notin {"sleep", "primary", "repair"}
          /\ nSleeps = lastCall.attempt - 1
    /\ (lastCall.kind = "repair" /\ lastCall.type = "http")
       => /\ attemptLog[Len(attemptLog)] = "unrepaired"
          /\ last_err.kind = "parse"
          /\ last_err.repair_code = lastCall.code
          /\ exc.type # "HTTPError"
          /\ IF pc = "sleep"
             THEN nSleeps = lastCall.attempt - 1 /\ ctl = "running"
             ELSE nSleeps = lastCall.attempt
          /\ ctl = "raised"
             => lastCall.attempt = max_attempts /\ exc.type = "ExtractionFailed"
    /\ exc.type = "HTTPError" => lastCall.kind = "primary"

\* A repair call of the first attempt was refused with status 400 and the
\* controller went on to its second attempt.
C15_Witness ==
    /\ lastCall = [kind |-> "repair", attempt |-> 1, type |-> "http",
                   code |-> 400]
    /\ attempt = 2
    /\ pc = "primary"
    /\ nSleeps = 1

\* C16. The controller sleeps only between attempts: a sleep is followed by
\* a further primary call, and a run that ends with ExtractionFailed has
\* slept max_attempts - 1 times.
C16_SleepsOnlyBetweenAttempts ==
    /\ exc.type = "ExtractionFailed" => nSleeps = max_attempts - 1
    /\ (nSleeps > 0 /\ pc # "primary") => nSleeps < nPrimary

\* C17. When the controller returned, no error report is written and the
\* run does not answer "processed_but_llm_failed", a failed write of the
\* structured record included.
C17_NoErrorReportAfterReturn ==
    ctl = "returned"
    => /\ err_payload = <<>>
       /\ ErrorArtifact \notin store
       /\ response.body # "processed_but_llm_failed"


\* Every hf_chat call completes (reply, HTTP error or transport error) and
\* every time.sleep returns: the steps of call_hf_extract are taken once they
\* are enabled.
SpecLive ==
    /\ Spec
    /\ WF_vars(CallHfExtract)
    /\ WF_vars(PrimaryCall)
    /\ WF_vars(RepairCall)
    /\ WF_vars(BackoffSleep)

\* C19 as stated, its outcomes: a controller that raised has raised the
\* fatal HTTP error or ExtractionFailed.
C19_ThreeOutcomes ==
    ctl = "raised" => exc.type \in {"HTTPError", "ExtractionFailed"}

\* C19, amended. Every call completing and every sleep ending, each
\* invocation of call_hf_extract ends, returned or raised; what it raises is
\* the configuration error, the fatal HTTP error or ExtractionFailed; it
\* makes at most max_attempts primary and max_attempts repair calls and
\* sleeps at most max_attempts times; once ended it acts no more.
C19_EndsWithinBudget ==
    /\ (pc = "call_hf_extract") ~> (ctl \in {"returned", "raised"})
    /\ [](/\ nPrimary <= 3 /\ nRepair <= 3 /\ nCalls <= 6 /\ nSleeps <= 3
          /\ nRepair <= nPrimary
          /\ ctl = "raised"
             => exc.type \in {"ConfigError", "HTTPError", "ExtractionFailed"}
          /\ (ctl = "raised" /\ exc.type = "ConfigError") => nCalls = 0)
    /\ [][(ctl \in {"returned", "raised"})
            => UNCHANGED <<ctl, nPrimary, nRepair, nSleeps>>]_vars

\* An invocation that used the whole budget: six calls, three sleeps, then
\* ExtractionFailed.
C19_Witness ==
    /\ ctl = "raised"
    /\ exc.type = "ExtractionFailed"
    /\ nCalls = 6
    /\ nSleeps = 3


\* ------------------------------------- extract_json_object on its own

MaxTextLen == 3
MaxCalls   == 2

RECURSIVE TextsOver(_, _)
\* The texts of at most n characters of the set chars.
TextsOver(chars, n) ==
    IF n = 0 THEN {<<>>}
    ELSE LET shorter == TextsOver(chars, n - 1)
         IN  shorter \cup {Append(t, c) : t \in shorter, c \in chars}

\* Replies with no object meant: braces and other characters in any order.
FreeTexts == TextsOver({"{", "}", "x"}, MaxTextLen)

\* Valid JSON objects: {}, {"a":1}, {"a":[1,0]}, {"a":",}"} and {"a":"\u201c"}.
EmbeddedObjects ==
    { <<"{", "}">>,
      <<"{", "\"", "a", "\"", ":", "1", "}">>,
      <<"{", "\"", "a", "\"", ":", "[", "1", ",", "0", "]", "}">>,
      <<"{", "\"", "a", "\"", ":", "\"", ",", "}", "\"", "}">>,
      <<"{", "\"", "a", "\"", ":", "\"", "LDQ", "\"", "}">> }

\* Prose around the object: none, words, words with a brace.
ProseBefore == {<<>>, <<"x", " ">>, <<"{", " ">>}
ProseAfter  == {<<>>, <<" ", "x">>, <<" ", "}">>}

Compositions ==
    [before : ProseBefore, object : EmbeddedObjects, after : ProseAfter]
    \cup {[NoParts EXCEPT !.before = t] : t \in FreeTexts}

ExtractorInit ==
    /\ HandlerInit
    /\ key = Raw \o <<"a">> \o DotPdf
    /\ token = ""
    /\ InvocationsIdle
    /\ parts \in Compositions
    /\ model_output = parts.before \o parts.object \o parts.after
    /\ extracted = <<>>

\* One more call extract_json_object(model_output).
Extract ==
    /\ Len(extracted) < MaxCalls
    /\ extracted' = Append(extracted, extract_json_object(model_output))
    /\ UNCHANGED <<parts, model_output, handlerVars, invocationVars>>

ExtractorNext == Extract

SpecExtractor == ExtractorInit /\ [][ExtractorNext]_vars

\* C12. Called on a valid JSON object with prose before and after it,
\* extract_json_object returns that object: the value it returns is the
\* value of the object alone.
C12_ReturnsEmbeddedObject ==
    (extracted # <<>> /\ parts.object # <<>>)
    => /\ extracted[1].err = ""
       /\ extracted[1].val = json_loads(parts.object).val

\* No "{" of the text stands before a "}" of it.
NoBracePair(t) ==
    ~ \E i, j \in 1..Len(t) : i < j /\ t[i] = "{" /\ t[j] = "}"

Invocations == 1..2

\* Keys that pass the test of line 176: those of Keys, and one of another
\* file name.
SourceKeys ==
    {k \in Keys : ~NonTarget(k)} \cup {Raw \o <<"b">> \o DotPdf}

\* The locals of an invocation on key k, before its first step; wrote is
\* the set of keys it has written with s3.put_object.
NewRun(k) ==
    [key |-> k, pc |-> "start", extracted_text |-> <<>>, wrote |-> {},
     response |-> NoResponse]

\* s3.put_object(Bucket=bucket, Key=k, ...) by invocation r: the object at
\* k is replaced.
PutObject(b, k, r) ==
    {o \in b : o.key # k} \cup {[key |-> k, by |-> r]}

InvocationsInit ==
    /\ HandlerInit
    /\ key = Raw \o <<"a">> \o DotPdf
    /\ token = ""
    /\ ExtractorIdle
    /\ \E k1, k2 \in SourceKeys :
         /\ k1 # k2
         /\ runs = <<NewRun(k1), NewRun(k2)>>
    /\ bucket = {}

\* Invocation r takes a step that leaves its locals as in upd; the other
\* invocation stands still.
Step(r, upd) == runs' = [runs EXCEPT ![r] = upd]

\* lambda_handler, up to the test of the key.
RunStart(r) ==
    /\ runs[r].pc = "start"
    /\ IF NonTarget(runs[r].key)
       THEN Step(r, [runs[r] EXCEPT !.pc = "done",
                                    !.response = Returned("skipped")])
       ELSE Step(r, [runs[r] EXCEPT !.pc = "get_object"])
    /\ UNCHANGED <<bucket, handlerVars, extractorVars>>

\* s3.get_object, PdfReader and the loop over the pages.
RunGetObject(r) ==
    /\ runs[r].pc = "get_object"
    /\ \/ \E ps \in PageLists :
            Step(r, [runs[r] EXCEPT !.pc = "put_text",
                                    !.extracted_text = JoinPages(ps)])
       \/ Step(r, [runs[r] EXCEPT !.pc = "aborted"])
    /\ UNCHANGED <<bucket, handlerVars, extractorVars>>

\* s3.put_object(Key=text_key, ...)
RunPutText(r) ==
    /\ runs[r].pc = "put_text"
    /\ \/ /\ bucket' = PutObject(bucket, text_key_of(runs[r].key), r)
          /\ Step(r, [runs[r] EXCEPT
                        !.pc = "put_meta",
                        !.wrote = @ \cup {text_key_of(runs[r].key)}])
       \/ /\ Step(r, [runs[r] EXCEPT !.pc = "aborted"])
          /\ UNCHANGED bucket
    /\ UNCHANGED <<handlerVars, extractorVars>>

\* s3.put_object(Key=meta_key, ...) and the test for an empty text.
RunPutMeta(r) ==
    /\ runs[r].pc = "put_meta"
    /\ \/ /\ bucket' = PutObject(bucket, meta_key_of(runs[r].key), r)
          /\ IF IsEmptyText(runs[r].extracted_text)
             THEN Step(r, [runs[r] EXCEPT
                             !.pc = "done",
                             !.response = Returned("no_text"),
                             !.wrote = @ \cup {meta_key_of(runs[r].key)}])
             ELSE Step(r, [runs[r] EXCEPT
                             !.pc = "call_hf_extract",
                             !.wrote = @ \cup {meta_key_of(runs[r].key)}])
       \/ /\ Step(r, [runs[r] EXCEPT !.pc = "aborted"])
          /\ UNCHANGED bucket
    /\ UNCHANGED <<handlerVars, extractorVars>>

\* call_hf_extract(extracted_text) as a whole: it returns or it raises.
RunCallHfExtract(r) ==
    /\ runs[r].pc = "call_hf_extract"
    /\ \E p \in {"put_structured", "put_error"} :
         Step(r, [runs[r] EXCEPT !.pc = p])
    /\ UNCHANGED <<bucket, handlerVars, extractorVars>>

\* s3.put_object(Key=structured_key, ...) and the return that follows; a
\* failure of the write is caught by "except Exception as e".
RunPutStructured(r) ==
    /\ runs[r].pc = "put_structured"
    /\ \/ /\ bucket' = PutObject(bucket, structured_key_of(runs[r].key), r)
          /\ Step(r, [runs[r] EXCEPT
                        !.pc = "done",
                        !.response = Returned("processed_with_llm"),
                        !.wrote = @ \cup {structured_key_of(runs[r].key)}])
       \/ /\ Step(r, [runs[r] EXCEPT !.pc = "put_error"])
          /\ UNCHANGED bucket
    /\ UNCHANGED <<handlerVars, extractorVars>>

\* The handler of "except Exception as e": s3.put_object(Key=err_key, ...)
\* and the return that follows.
RunPutError(r) ==
    /\ runs[r].pc = "put_error"
    /\ \/ /\ bucket' = PutObject(bucket, err_key_of(runs[r].key), r)
          /\ Step(r, [runs[r] EXCEPT
                        !.pc = "done",
                        !.response = Returned("processed_but_llm_failed"),
                        !.wrote = @ \cup {err_key_of(runs[r].key)}])
       \/ /\ Step(r, [runs[r] EXCEPT !.pc = "aborted"])
          /\ UNCHANGED bucket
    /\ UNCHANGED <<handlerVars, extractorVars>>

InvocationsNext ==
    \E r \in Invocations :
        \/ RunStart(r)
        \/ RunGetObject(r)
        \/ RunPutText(r)
        \/ RunPutMeta(r)
        \/ RunCallHfExtract(r)
        \/ RunPutStructured(r)
        \/ RunPutError(r)

SpecInvocations == InvocationsInit /\ [][InvocationsNext]_vars

\* C18. Two invocations on two distinct keys that pass the test of the key
\* write disjoint sets of keys, and when both have finished every key an
\* invocation wrote holds what that invocation wrote.
C18_InvocationsWriteApart ==
    \A r, q \in DOMAIN runs :
        /\ r # q => runs[r].wrote \cap runs[q].wrote = {}
        /\ (\A i \in DOMAIN runs : runs[i].pc \in {"done", "aborted"})
           => \A k \in runs[r].wrote : [key |-> k, by |-> r] \in bucket

====
